---- MODULE Spec2Model ----
(***************************************************************************)
(* State-machine model of the solar telemetry collector (src/pi/app.py):   *)
(* the SolarCollector object, its background worker thread (_run), the     *)
(* start()/stop() callers and a snapshot() caller, together with the       *)
(* serial transport, the CSV log and the wall clock they depend on.        *)
(*                                                                         *)
(* Units.  Time is wall-clock time in whole seconds.  The running energy    *)
(* total is kept multiplied by 3600 (watt-seconds instead of watt-hours),  *)
(* so that  energy += power_w * dt_h  with  dt_h = dt_s / 3600.0  becomes  *)
(* the integer update  energy += power_w * dt_s.                           *)
(* Optional values (None in the source) are sequences of length 0 or 1.    *)
(***************************************************************************)
EXTENDS Integers, Sequences, FiniteSets, TLC

\* ---------------------------------------------------------------- bounds
\* granularity of the modelled wall clock, seconds
ClockStep == 1800
\* largest configured sampling.max_buffer_points
MaxCapacity == 1
\* Spec: the number of well-formed sample frames the device sends, and the
\* clock's range [midnight - StepsBefore * ClockStep, midnight]
MaxSamples == 2
StepsBefore == 1
\* SpecEnergy: the same, the clock's range being
\* [midnight - EnergyStepsBefore * ClockStep, midnight + EnergyStepsAfter * ClockStep]
EnergySamples == 3
EnergyStepsBefore == 4
EnergyStepsAfter == 1
\* SpecStale: the clock's range [ClockMin, ClockMin + StaleSteps * ClockStep]
StaleSteps == 3
\* SpecStarts: the number of start() calls, each creating a thread
MaxStarts == 2

\* ------------------------------------------------------- program constants
SecondsPerHour == 3600
SecondsPerDay == 86400

\* the threads start() can create, in the order of their creation
Threads == 1 .. MaxStarts

\* the worker threads where start() is called once, as create_app does
Workers == {1}

Midnight == SecondsPerDay
ClockMin == Midnight - StepsBefore * ClockStep
EnergyClockMin == Midnight - EnergyStepsBefore * ClockStep
EnergyClockMax == Midnight + EnergyStepsAfter * ClockStep

\* datetime.date(): the calendar day of a timestamp
Date(ts) == ts \div SecondsPerDay

\* self._last_error values
NoError == "None"
SerialError == "Serial error: exc"
CollectorError == "Collector error: exc"

\* holders of self._lock
Free == << >>
SnapCaller == << "snapshot" >>
WorkerThread(w) == << "worker", w >>

RequiredKeys == {"voltage_v", "current_a", "temp_front_c", "temp_back_c"}

VARIABLES
    config,          \* self.config: sampling / calibration settings
    lock,            \* self._lock: Free, a worker, or the snapshot caller
    latest,          \* self._latest (<<>> is None)
    history,         \* self._history
    last_error,      \* self._last_error
    running,         \* self._running
    thread,          \* self._thread: 0 is None, else the worker last started
    energy_wh_day,   \* self._energy_wh_day (times 3600)
    last_sample_ts,  \* self._last_sample_ts (<<>> is None)
    day_marker,      \* self._day_marker
    serial,          \* self._serial: "none", "open" or "closed"
    csv,             \* the rows of the file at csv_path
    now,             \* the wall clock, datetime.now()
    pc,              \* where each worker thread is in _run
    raw,             \* _run's local raw: the frame read, per worker
    payload,         \* _run's local payload, per worker
    sample,          \* _run's local sample, per worker
    spc,             \* where the snapshot() caller is
    snap,            \* snapshot()'s locals latest, history, last_error
    cpc,             \* where the start()/stop() caller is
    stopped,         \* stop() has returned and start() was not called since
    committed,       \* every Sample appended to history so far, in order
    calls,           \* every call of _integrate_energy so far: ts, power_w, the
                     \* energy returned, and whether a Sample was built from it
    nsamples         \* well-formed sample frames received so far

vars == << config, lock, latest, history, last_error, running, thread,
           energy_wh_day, last_sample_ts, day_marker, serial, csv, now,
           pc, raw, payload, sample, spc, snap, cpc, stopped, committed, calls,
           nsamples >>

collector == << latest, history, last_error >>
carry == << energy_wh_day, last_sample_ts, day_marker >>
wlocal == << raw, payload, sample >>
caller == << cpc, stopped, running, thread >>
snapper == << spc, snap >>

\* ------------------------------------------------------------- the CSV log
Header == << "timestamp", "voltage_v", "current_a", "power_w",
             "temp_front_c", "temp_back_c", "energy_wh_day" >>

\* _append_csv's row for a Sample
CsvRow(s) == << s.timestamp, s.voltage_v, s.current_a, s.power_w,
                s.temp_front_c, s.temp_back_c, s.energy_wh_day >>

\* _ensure_csv_header: an absent or empty file gets the header, any other is kept
EnsureCsvHeader(file) == IF Len(file) > 0 THEN file ELSE << Header >>

\* --------------------------------------------------------------- the deque
\* a deque that, once full, drops the new element instead of the oldest
DequeAppendKeepsOldest(h, s, cap) == IF Len(h) < cap THEN Append(h, s) ELSE h

\* deque(maxlen = cap).append(s)
DequeAppend(h, s, cap) ==
    LET all == Append(h, s)
    IN  IF Len(all) <= cap THEN all
        ELSE SubSeq(all, Len(all) - cap + 1, Len(all))

\* ------------------------------------------------------------- calibration
\* a calibration that passes the device's own power reading on
ApplyCalibrationKeepsPower(p, cal) ==
    LET v == p.voltage_v * cal.voltage_gain + cal.voltage_offset
        i == p.current_a * cal.current_gain + cal.current_offset
    IN  [p EXCEPT !.voltage_v = v, !.current_a = i]

\* _apply_calibration, for a payload holding voltage_v and current_a
ApplyCalibration(p, cal) ==
    LET v == p.voltage_v * cal.voltage_gain + cal.voltage_offset
        i == p.current_a * cal.current_gain + cal.current_offset
    IN  [p EXCEPT !.voltage_v = v, !.current_a = i, !.power_w = v * i]

\* ------------------------------------------------------ energy integration
\* a rollover that keeps the last timestamp of the day before
RolloverKeepsTimestamp(ts, c) ==
    IF Date(ts) # c.day_marker
    THEN [day_marker |-> Date(ts), energy |-> 0, last_ts |-> c.last_ts]
    ELSE c

\* lines 95-98 of _integrate_energy: the day rollover
Rollover(ts, c) ==
    IF Date(ts) # c.day_marker
    THEN [day_marker |-> Date(ts), energy |-> 0, last_ts |-> << >>]
    ELSE c

\* the guard with the hour itself left out: 0 <= dt_h < 1
InWindowOpen(dt) == 0 <= dt /\ dt < SecondsPerHour

\* the guard without its lower end: dt_h <= 1
InWindowNoLowerEnd(dt) == dt <= SecondsPerHour

\* the guard of line 102, 0 <= dt_h <= 1, on dt in seconds
InWindow(dt) == 0 <= dt /\ dt <= SecondsPerHour

\* _integrate_energy on the carried state c; the result's energy is returned
IntegrateEnergy(ts, power_w, c) ==
    LET c1 == Rollover(ts, c)
        dt == IF c1.last_ts = << >> THEN 0 ELSE ts - c1.last_ts[1]
        e  == IF c1.last_ts # << >> /\ InWindow(dt)
              THEN c1.energy + power_w * dt
              ELSE c1.energy
    IN  [day_marker |-> c1.day_marker, energy |-> e, last_ts |-> << ts >>]

Carry == [day_marker |-> day_marker, energy |-> energy_wh_day,
          last_ts |-> last_sample_ts]

\* ------------------------------------------------------------------ frames
\* One line from the device.  kind: "empty" (timeout), "badutf8" (bytes that
\* are not UTF-8: decoded with replacement characters, the text is no JSON),
\* "notjson", "nonobject" (valid JSON that is no object) or "object"; an
\* object has a type tag ("none" when missing), the set of keys it holds and
\* their values.
Frame(kind, type, keys, v, i, p) ==
    [kind |-> kind, type |-> type, keys |-> keys, voltage_v |-> v,
     current_a |-> i, power_w |-> p, temp_front_c |-> 20, temp_back_c |-> 30]

Junk(kind) == Frame(kind, "none", {}, 0, 0, 0)

MalformedFrames ==
    { Junk("badutf8"), Junk("notjson"), Junk("nonobject"),
      Frame("object", "none", RequiredKeys, 1, 1, 9),
      Frame("object", "status", RequiredKeys, 1, 1, 9) }
    \cup { Frame("object", "sample", RequiredKeys \ {k}, 1, 1, 9) : k \in RequiredKeys }

SampleFrames(V, I) ==
    { Frame("object", "sample", RequiredKeys, v, i, 9) : v \in V, i \in I }

IsSample(f) ==
    /\ f.kind = "object"
    /\ f.type = "sample"
    /\ {"voltage_v", "current_a"} \subseteq f.keys

Frames == {Junk("empty")} \cup MalformedFrames \cup SampleFrames({2}, {1})

\* empty reads and well-formed samples only
StartFrames == {Junk("empty")} \cup SampleFrames({2}, {1})

\* SpecEnergy: raw currents of either sign, and a frame that lacks a temperature
EnergyFrames ==
    SampleFrames({2}, {-1, 1})
    \cup { Junk("empty"), Frame("object", "sample", RequiredKeys \ {"temp_back_c"}, 1, 1, 9) }

\* ----------------------------------------------------------- configuration
Config(cap, vg, vo, ig, io, stale) ==
    [max_buffer_points |-> cap, voltage_gain |-> vg, voltage_offset |-> vo,
     current_gain |-> ig, current_offset |-> io, stale_after_s |-> stale]

Configs == { Config(cap, 1, 0, 1, 0, ClockStep) : cap \in 0 .. MaxCapacity }

\* SpecEnergy: gains and offsets that change the readings
EnergyConfigs == { Config(1, 2, 1, 2, 1, ClockStep) }

\* ------------------------------------------------------------ construction
\* SolarCollector.__init__ on a store holding `file`, at clock value t
Construct(cfg, file, t) ==
    /\ config = cfg
    /\ lock = Free
    /\ latest = << >>
    /\ history = << >>
    /\ running = FALSE
    /\ thread = 0
    /\ energy_wh_day = 0
    /\ last_sample_ts = << >>
    /\ day_marker = Date(t)
    /\ last_error = NoError
    /\ serial = "none"
    /\ csv = EnsureCsvHeader(file)

InitWith(C, t) ==
    /\ now = t
    /\ \E cfg \in C : Construct(cfg, << >>, t)
    /\ pc = [w \in Threads |-> "idle"]
    /\ raw = [w \in Threads |-> << >>]
    /\ payload = [w \in Threads |-> << >>]
    /\ sample = [w \in Threads |-> << >>]
    /\ spc = "idle"
    /\ snap = [latest |-> << >>, history |-> << >>, last_error |-> NoError]
    /\ cpc = "ready"
    /\ stopped = FALSE
    /\ committed = << >>
    /\ calls = << >>
    /\ nsamples = 0

Init == InitWith(Configs, ClockMin)

\* ------------------------------------------------------------ the worker
\* a worker moves to label l
Goto(w, l) == pc' = [pc EXCEPT ![w] = l]

\* payload and sample are dead once the cycle's work is over
ClearLocals(w) ==
    /\ payload' = [payload EXCEPT ![w] = << >>]
    /\ sample' = [sample EXCEPT ![w] = << >>]

\* a loop head that does not look at the flag: while True
WLoopIgnoresFlag(w) ==
    /\ pc[w] = "loop"
    /\ Goto(w, "connect")
    /\ raw' = [raw EXCEPT ![w] = << >>]
    /\ UNCHANGED << config, lock, collector, carry, serial, csv, now, payload, sample,
                    snapper, caller, committed, calls, nsamples >>

\* line 124: while self._running; the frame of the cycle before is dead
WLoop(w) ==
    /\ pc[w] = "loop"
    /\ IF running THEN Goto(w, "connect") ELSE Goto(w, "exited")
    /\ raw' = [raw EXCEPT ![w] = << >>]
    /\ UNCHANGED << config, lock, collector, carry, serial, csv, now, payload, sample,
                    snapper, caller, committed, calls, nsamples >>

\* lines 126-127: _connect() unless a transport is open; where the
\* environment has faults, opening may fail
WConnect(w, faults) ==
    /\ pc[w] = "connect"
    /\ \/ /\ serial = "open"
          /\ Goto(w, "read")
          /\ UNCHANGED serial
       \/ /\ serial # "open"
          /\ serial' = "open"
          /\ Goto(w, "read")
       \/ /\ serial # "open"
          /\ faults
          /\ Goto(w, "serial_exc")
          /\ UNCHANGED serial
    /\ UNCHANGED << config, lock, collector, carry, csv, now, wlocal,
                    snapper, caller, committed, calls, nsamples >>

\* lines 130-137 on the frame f that readline() returned: the label reached
\* and the payload held there
Parsed(f, cal) ==
    CASE f.kind = "empty" -> [to |-> "loop", payload |-> << >>]
      [] f.kind \in {"badutf8", "notjson"} -> [to |-> "loop", payload |-> << >>]
      [] f.kind = "nonobject" -> [to |-> "other_exc", payload |-> << >>]
      [] f.kind = "object" /\ f.type # "sample" -> [to |-> "loop", payload |-> << >>]
      [] f.kind = "object" /\ f.type = "sample" /\ ~ IsSample(f) ->
            [to |-> "loop", payload |-> << >>]
      [] OTHER -> [to |-> "integrate", payload |-> << ApplyCalibration(f, cal) >>]

\* the frames of F the device may send next: at most `limit` well-formed samples
Offered(F, limit) == { f \in F : IsSample(f) => nsamples < limit }

\* lines 129-137: read one line from the frames F, parse it, calibrate it.
\* A transport that stop() closed under the reader, or a failing read, raises.
\* raw keeps the frame while the cycle goes on with it; a frame that sends
\* the worker straight back to the loop head is dead at once.
WRead(w, F, limit, faults) ==
    /\ pc[w] = "read"
    /\ \/ /\ serial = "open"
          /\ \E f \in Offered(F, limit) :
                LET r == Parsed(f, config)
                IN  /\ nsamples' = IF IsSample(f) THEN nsamples + 1 ELSE nsamples
                    /\ Goto(w, r.to)
                    /\ raw' = [raw EXCEPT ![w] = IF r.to = "loop" THEN << >> ELSE << f >>]
                    /\ payload' = [payload EXCEPT ![w] = r.payload]
       \/ /\ serial = "open"
          /\ faults
          /\ Goto(w, "serial_exc")
          /\ UNCHANGED << raw, payload, nsamples >>
       \/ /\ serial # "open"
          /\ \/ Goto(w, "serial_exc")
             \/ Goto(w, "other_exc")
          /\ UNCHANGED << raw, payload, nsamples >>
    /\ UNCHANGED << config, lock, collector, carry, serial, csv, now, sample,
                    snapper, caller, committed, calls >>

\* lines 141-149: the Sample built from a calibrated payload
MakeSample(ts, p, energy) ==
    [timestamp |-> ts, voltage_v |-> p.voltage_v, current_a |-> p.current_a,
     power_w |-> p.power_w, temp_front_c |-> p.temp_front_c,
     temp_back_c |-> p.temp_back_c, energy_wh_day |-> energy]

\* lines 138-149: stamp with the clock, integrate, build the Sample; a payload
\* without a temperature raises KeyError once the energy has been integrated
WIntegrate(w) ==
    /\ pc[w] = "integrate"
    /\ LET p == payload[w][1]
           c == IntegrateEnergy(now, p.power_w, Carry)
       IN  /\ energy_wh_day' = c.energy
           /\ last_sample_ts' = c.last_ts
           /\ day_marker' = c.day_marker
           /\ calls' = Append(calls,
                  [ts |-> now, power_w |-> p.power_w, energy |-> c.energy,
                   sample |-> {"temp_front_c", "temp_back_c"} \subseteq p.keys])
           /\ IF {"temp_front_c", "temp_back_c"} \subseteq p.keys
              THEN /\ sample' = [sample EXCEPT ![w] = << MakeSample(now, p, c.energy) >>]
                   /\ Goto(w, "acquire")
                   /\ UNCHANGED payload
              ELSE /\ Goto(w, "loop")
                   /\ ClearLocals(w)
           /\ UNCHANGED raw
    /\ UNCHANGED << config, lock, collector, serial, csv, now,
                    snapper, caller, committed, nsamples >>

\* threading.Lock.acquire by holder h
Acquire(h) == lock = Free /\ lock' = h

\* line 151: with self._lock
WAcquire(w) ==
    /\ pc[w] = "acquire"
    /\ Acquire(WorkerThread(w))
    /\ Goto(w, "set_latest")
    /\ UNCHANGED << config, collector, carry, serial, csv, now, wlocal,
                    snapper, caller, committed, calls, nsamples >>

\* line 152
WSetLatest(w) ==
    /\ pc[w] = "set_latest"
    /\ latest' = sample[w]
    /\ Goto(w, "append_history")
    /\ UNCHANGED << config, lock, history, last_error, carry, serial, csv, now,
                    wlocal, snapper, caller, committed, calls, nsamples >>

\* line 153
WAppendHistory(w) ==
    /\ pc[w] = "append_history"
    /\ history' = DequeAppend(history, sample[w][1], config.max_buffer_points)
    /\ committed' = Append(committed, sample[w][1])
    /\ Goto(w, "clear_error")
    /\ UNCHANGED << config, lock, latest, last_error, carry, serial, csv, now,
                    wlocal, snapper, caller, calls, nsamples >>

\* a commit that ends without releasing the lock
WClearErrorKeepsLock(w) ==
    /\ pc[w] = "clear_error"
    /\ last_error' = NoError
    /\ Goto(w, "append_csv")
    /\ UNCHANGED << config, lock, latest, history, carry, serial, csv, now,
                    wlocal, snapper, caller, committed, calls, nsamples >>

\* line 154, and the release of the lock that ends the with block
WClearError(w) ==
    /\ pc[w] = "clear_error"
    /\ last_error' = NoError
    /\ lock' = Free
    /\ Goto(w, "append_csv")
    /\ UNCHANGED << config, latest, history, carry, serial, csv, now,
                    wlocal, snapper, caller, committed, calls, nsamples >>

\* an append whose failure is not caught and ends the thread
WAppendCsvFatal(w, faults) ==
    /\ pc[w] = "append_csv"
    /\ \/ /\ csv' = Append(csv, CsvRow(sample[w][1]))
          /\ Goto(w, "loop")
       \/ /\ faults
          /\ Goto(w, "exited")
          /\ UNCHANGED csv
    /\ ClearLocals(w)
    /\ UNCHANGED raw
    /\ UNCHANGED << config, lock, collector, carry, serial, now,
                    snapper, caller, committed, calls, nsamples >>

\* line 156: _append_csv; where the environment has faults, opening or
\* writing the file may raise OSError
WAppendCsv(w, faults) ==
    /\ pc[w] = "append_csv"
    /\ \/ /\ csv' = Append(csv, CsvRow(sample[w][1]))
          /\ Goto(w, "loop")
       \/ /\ faults
          /\ Goto(w, "other_exc")
          /\ UNCHANGED csv
    /\ ClearLocals(w)
    /\ UNCHANGED raw
    /\ UNCHANGED << config, lock, collector, carry, serial, now,
                    snapper, caller, committed, calls, nsamples >>

\* a handler that sleeps and reconnects without recording the fault
WSerialExcSilent(w) ==
    /\ pc[w] = "serial_exc"
    /\ Goto(w, "serial_sleep")
    /\ ClearLocals(w)
    /\ UNCHANGED raw
    /\ UNCHANGED << config, lock, collector, carry, serial, csv, now,
                    snapper, caller, committed, calls, nsamples >>

\* line 161: except serial.SerialException
WSerialExc(w) ==
    /\ pc[w] = "serial_exc"
    /\ last_error' = SerialError
    /\ Goto(w, "serial_sleep")
    /\ ClearLocals(w)
    /\ UNCHANGED raw
    /\ UNCHANGED << config, lock, latest, history, carry, serial, csv, now,
                    snapper, caller, committed, calls, nsamples >>

\* line 162: time.sleep(2)
WSerialSleep(w) ==
    /\ pc[w] = "serial_sleep"
    /\ Goto(w, "serial_close")
    /\ UNCHANGED << config, lock, collector, carry, serial, csv, now, wlocal,
                    snapper, caller, committed, calls, nsamples >>

\* a handler that leaves the transport as it is
WSerialCloseSkipped(w) ==
    /\ pc[w] = "serial_close"
    /\ Goto(w, "loop")
    /\ UNCHANGED << config, lock, collector, carry, serial, csv, now, wlocal,
                    snapper, caller, committed, calls, nsamples >>

\* lines 163-164: close the transport if it is open
WSerialClose(w) ==
    /\ pc[w] = "serial_close"
    /\ serial' = IF serial = "open" THEN "closed" ELSE serial
    /\ Goto(w, "loop")
    /\ UNCHANGED << config, lock, collector, carry, csv, now, wlocal,
                    snapper, caller, committed, calls, nsamples >>

\* no catch-all handler: the exception ends the thread
WOtherExcEndsThread(w) ==
    /\ pc[w] = "other_exc"
    /\ Goto(w, "exited")
    /\ ClearLocals(w)
    /\ UNCHANGED raw
    /\ UNCHANGED << config, lock, collector, carry, serial, csv, now,
                    snapper, caller, committed, calls, nsamples >>

\* line 166: except Exception
WOtherExc(w) ==
    /\ pc[w] = "other_exc"
    /\ last_error' = CollectorError
    /\ Goto(w, "other_sleep")
    /\ ClearLocals(w)
    /\ UNCHANGED raw
    /\ UNCHANGED << config, lock, latest, history, carry, serial, csv, now,
                    snapper, caller, committed, calls, nsamples >>

\* line 167: time.sleep(1)
WOtherSleep(w) ==
    /\ pc[w] = "other_sleep"
    /\ Goto(w, "loop")
    /\ UNCHANGED << config, lock, collector, carry, serial, csv, now, wlocal,
                    snapper, caller, committed, calls, nsamples >>

\* one step of worker w's _run, the device sending frames of F, at most
\* `limit` of them well-formed samples
Worker(w, F, limit) ==
    \/ WLoop(w)
    \/ WConnect(w, TRUE)
    \/ WRead(w, F, limit, TRUE)
    \/ WIntegrate(w)
    \/ WAcquire(w)
    \/ WSetLatest(w)
    \/ WAppendHistory(w)
    \/ WClearError(w)
    \/ WAppendCsv(w, TRUE)
    \/ WSerialExc(w)
    \/ WSerialSleep(w)
    \/ WSerialClose(w)
    \/ WOtherExc(w)
    \/ WOtherSleep(w)

\* ------------------------------------------------------ start() and stop()
\* lines 66-69: start(), the thread it creates being one of W
StartThread(W) ==
    /\ cpc = "ready"
    /\ thread + 1 \in W
    /\ running' = TRUE
    /\ thread' = thread + 1
    /\ pc' = [pc EXCEPT ![thread + 1] = "loop"]
    /\ stopped' = FALSE
    /\ UNCHANGED << config, lock, collector, carry, serial, csv, now, wlocal,
                    snapper, cpc, committed, calls, nsamples >>

\* start(), called once
Start == StartThread(Workers)

\* line 72: stop() clears the running flag
StopFlag ==
    /\ cpc = "ready"
    /\ running' = FALSE
    /\ cpc' = "stop_join"
    /\ stopped' = FALSE
    /\ UNCHANGED << config, lock, collector, carry, serial, csv, now, pc, wlocal,
                    snapper, thread, committed, calls, nsamples >>

\* lines 73-74: join(timeout=2) returns when the thread has ended, or when
\* the two seconds are over, whatever the thread is doing
StopJoin ==
    /\ cpc = "stop_join"
    /\ \/ thread = 0
       \/ thread # 0 /\ pc[thread] = "exited"
       \/ thread # 0 /\ pc[thread] # "exited"
    /\ cpc' = "stop_close"
    /\ UNCHANGED << config, lock, collector, carry, serial, csv, now, pc, wlocal,
                    snapper, stopped, running, thread, committed, calls, nsamples >>

\* lines 75-76: close the transport if it is open; stop() returns
StopClose ==
    /\ cpc = "stop_close"
    /\ serial' = IF serial = "open" THEN "closed" ELSE serial
    /\ cpc' = "ready"
    /\ stopped' = TRUE
    /\ UNCHANGED << config, lock, collector, carry, csv, now, pc, wlocal,
                    snapper, running, thread, committed, calls, nsamples >>

\* ------------------------------------------------------------- snapshot()
\* line 170: with self._lock
SnapAcquire ==
    /\ spc = "idle"
    /\ Acquire(SnapCaller)
    /\ spc' = "read_latest"
    /\ UNCHANGED << config, collector, carry, serial, csv, now, pc, wlocal,
                    snap, caller, committed, calls, nsamples >>

\* line 171
SnapLatest ==
    /\ spc = "read_latest"
    /\ snap' = [snap EXCEPT !.latest = latest]
    /\ spc' = "read_history"
    /\ UNCHANGED << config, lock, collector, carry, serial, csv, now, pc, wlocal,
                    caller, committed, calls, nsamples >>

\* line 172
SnapHistory ==
    /\ spc = "read_history"
    /\ snap' = [snap EXCEPT !.history = history]
    /\ spc' = "read_error"
    /\ UNCHANGED << config, lock, collector, carry, serial, csv, now, pc, wlocal,
                    caller, committed, calls, nsamples >>

\* line 173, and the release of the lock that ends the with block
SnapError ==
    /\ spc = "read_error"
    /\ snap' = [snap EXCEPT !.last_error = last_error]
    /\ lock' = Free
    /\ spc' = "return"
    /\ UNCHANGED << config, collector, carry, serial, csv, now, pc, wlocal,
                    caller, committed, calls, nsamples >>

\* a flag raised as soon as the threshold is reached: >= for >
StaleAtThreshold(l, t, cfg) ==
    IF l = << >> THEN TRUE ELSE t - l[1].timestamp >= cfg.stale_after_s

\* lines 175-178: the stale flag of the snapshot being returned
Stale(l, t, cfg) ==
    IF l = << >> THEN TRUE ELSE t - l[1].timestamp > cfg.stale_after_s

\* lines 180-187: what snapshot() returns
Snapshot ==
    [latest |-> snap.latest, history |-> snap.history,
     status |-> [stale |-> Stale(snap.latest, now, config),
                 last_error |-> snap.last_error]]

\* snapshot() returns; its locals are dead
SnapReturn ==
    /\ spc = "return"
    /\ spc' = "idle"
    /\ snap' = [latest |-> << >>, history |-> << >>, last_error |-> NoError]
    /\ UNCHANGED << config, lock, collector, carry, serial, csv, now, pc, wlocal,
                    caller, committed, calls, nsamples >>

\* ---------------------------------------------------------- the wall clock
ClockForward(max) ==
    /\ now + ClockStep <= max
    /\ now' = now + ClockStep
    /\ UNCHANGED << config, lock, collector, carry, serial, csv, pc, wlocal,
                    snapper, caller, committed, calls, nsamples >>

\* the wall clock is set back (datetime.now() is not monotonic)
ClockBackward(min) ==
    /\ now - ClockStep >= min
    /\ now' = now - ClockStep
    /\ UNCHANGED << config, lock, collector, carry, serial, csv, pc, wlocal,
                    snapper, caller, committed, calls, nsamples >>

\* ------------------------------------------------------- the specification
\* The collector with its worker, a caller of start() and stop() and a caller
\* of snapshot(), all interleaved, while the clock advances to midnight.
Next ==
    \/ \E w \in Workers : Worker(w, Frames, MaxSamples)
    \/ Start
    \/ StopFlag
    \/ StopJoin
    \/ StopClose
    \/ SnapAcquire
    \/ SnapLatest
    \/ SnapHistory
    \/ SnapError
    \/ SnapReturn
    \/ ClockForward(Midnight)

Spec == Init /\ [][Next]_vars

\* The same under the scheduling the threads get: a runnable worker thread
\* takes its next step, a sleep ends, a read returns within its timeout.
SpecLive == Spec /\ WF_vars(\E w \in Workers : Worker(w, Frames, MaxSamples))

\* The worker, the caller of start() and stop() and the caller of
\* snapshot() under fair scheduling of the threads and of the lock: a thread
\* that can take a step again and again takes it, in particular one waiting
\* for the lock gets it in the end, and the snapshot caller, once it holds
\* the lock, goes on to release it.  The device sends empty reads, text that
\* is no JSON and well-formed samples; the transport and the log may fail.
FairFrames == StartFrames \cup {Junk("notjson")}

InitFair == InitWith({Config(MaxCapacity, 1, 0, 1, 0, ClockStep)}, ClockMin)

NextFair ==
    \/ \E w \in Workers : Worker(w, FairFrames, MaxSamples)
    \/ Start
    \/ StopFlag
    \/ StopJoin
    \/ StopClose
    \/ SnapAcquire
    \/ SnapLatest
    \/ SnapHistory
    \/ SnapError
    \/ SnapReturn

SpecFair ==
    /\ InitFair
    /\ [][NextFair]_vars
    /\ SF_vars(\E w \in Workers : Worker(w, FairFrames, MaxSamples))
    /\ SF_vars(SnapAcquire)
    /\ WF_vars(SnapLatest \/ SnapHistory \/ SnapError)

\* The calibration and the integration on their own: one worker whose
\* transport and log do not fail, no stop() and no snapshot().  The clock
\* moves both ways across midnight; only line 138 reads it, so it is stepped
\* while the worker is about to take its timestamp.
InitEnergy == InitWith(EnergyConfigs, EnergyClockMin)

Stamping == \E w \in Workers : pc[w] = "integrate"

NextEnergy ==
    \/ Start
    \/ \E w \in Workers : WLoop(w)
    \/ \E w \in Workers : WConnect(w, FALSE)
    \/ \E w \in Workers : WRead(w, EnergyFrames, EnergySamples, FALSE)
    \/ \E w \in Workers : WIntegrate(w)
    \/ \E w \in Workers : WAcquire(w)
    \/ \E w \in Workers : WSetLatest(w)
    \/ \E w \in Workers : WAppendHistory(w)
    \/ \E w \in Workers : WClearError(w)
    \/ \E w \in Workers : WAppendCsv(w, FALSE)
    \/ Stamping /\ ClockForward(EnergyClockMax)
    \/ Stamping /\ ClockBackward(EnergyClockMin)

SpecEnergy == InitEnergy /\ [][NextEnergy]_vars

\* A new process constructs the collector again on the same store, once the
\* worker of the process before has ended and no call is under way.
Restart ==
    /\ cpc = "ready"
    /\ spc = "idle"
    /\ \A w \in Workers : pc[w] = "exited"
    /\ lock' = Free
    /\ latest' = << >>
    /\ history' = << >>
    /\ running' = FALSE
    /\ thread' = 0
    /\ energy_wh_day' = 0
    /\ last_sample_ts' = << >>
    /\ day_marker' = Date(now)
    /\ last_error' = NoError
    /\ serial' = "none"
    /\ csv' = EnsureCsvHeader(csv)
    /\ pc' = [w \in Threads |-> "idle"]
    /\ stopped' = FALSE
    /\ UNCHANGED << config, now, wlocal, snapper, cpc, committed, calls, nsamples >>

NextRestart == Next \/ Restart

SpecRestart == Init /\ [][NextRestart]_vars

\* The staleness flag: one worker whose transport and log do not fail and a
\* caller of snapshot(), while the clock runs on past the threshold, which
\* is 0 or one step of the clock.
StaleConfigs == { Config(MaxCapacity, 1, 0, 1, 0, t) : t \in {0, ClockStep} }

StaleClockMax == ClockMin + StaleSteps * ClockStep

InitStale == InitWith(StaleConfigs, ClockMin)

NextStale ==
    \/ Start
    \/ \E w \in Workers : WLoop(w)
    \/ \E w \in Workers : WConnect(w, FALSE)
    \/ \E w \in Workers : WRead(w, StartFrames, MaxSamples, FALSE)
    \/ \E w \in Workers : WIntegrate(w)
    \/ \E w \in Workers : WAcquire(w)
    \/ \E w \in Workers : WSetLatest(w)
    \/ \E w \in Workers : WAppendHistory(w)
    \/ \E w \in Workers : WClearError(w)
    \/ \E w \in Workers : WAppendCsv(w, FALSE)
    \/ SnapAcquire
    \/ SnapLatest
    \/ SnapHistory
    \/ SnapError
    \/ SnapReturn
    \/ ClockForward(StaleClockMax)

SpecStale == InitStale /\ [][NextStale]_vars

\* start() and stop() called in any order and any number of times up to
\* MaxStarts, every start() creating a thread that runs _run on the one
\* collector; the device sends empty reads and well-formed samples.

InitStarts == InitWith({Config(MaxCapacity, 1, 0, 1, 0, ClockStep)}, ClockMin)

NextStarts ==
    \/ StartThread(Threads)
    \/ StopFlag
    \/ StopJoin
    \/ StopClose
    \/ \E w \in Threads : Worker(w, StartFrames, MaxSamples)

SpecStarts == InitStarts /\ [][NextStarts]_vars

\* ------------------------------------------------------------- the claims
Min(a, b) == IF a <= b THEN a ELSE b

\* the last n elements of a sequence
LastN(seq, n) == SubSeq(seq, Len(seq) - n + 1, Len(seq))

\* latest and history agree: both absent, or latest is history's last element
Consistent(l, h) ==
    \/ l = << >> /\ h = << >>
    \/ l # << >> /\ h # << >> /\ l[1] = h[Len(h)]

\* C1: every result of snapshot(), in any interleaving with the worker's
\* commits and for every configured capacity, has latest absent and history
\* empty, or latest equal to the last element of history.
C1_SnapshotConsistent ==
    spc = "return" => Consistent(Snapshot.latest, Snapshot.history)

\* C1, for the capacities of at least 1: the same statement holds.
C1_SnapshotConsistentPositiveCapacity ==
    (spc = "return" /\ config.max_buffer_points >= 1)
        => Consistent(Snapshot.latest, Snapshot.history)

\* C2: a committed Sample's energy-today is at least that of the Sample
\* committed before it when both are of the same calendar day, whatever the
\* calibrated power; the first Sample of another day carries energy-today 0.
C2_EnergyMonotoneWithinDay ==
    \A k \in 2 .. Len(committed) :
        IF Date(committed[k].timestamp) = Date(committed[k - 1].timestamp)
        THEN committed[k].energy_wh_day >= committed[k - 1].energy_wh_day
        ELSE committed[k].energy_wh_day = 0

\* Three consecutive samples, at T0, T0 + 30 min and T0 + 90 min of one
\* calendar day, with the same power p: calls k, k + 1 and k + 2 of the
\* integration, a Sample built from each
HalfHour == SecondsPerHour \div 2

Triple(k, p) ==
    /\ k + 2 <= Len(calls)
    /\ calls[k + 1].ts = calls[k].ts + HalfHour
    /\ calls[k + 2].ts = calls[k].ts + 3 * HalfHour
    /\ Date(calls[k + 1].ts) = Date(calls[k].ts)
    /\ Date(calls[k + 2].ts) = Date(calls[k].ts)
    /\ calls[k].power_w = p
    /\ calls[k + 1].power_w = p
    /\ calls[k + 2].power_w = p
    /\ calls[k].sample /\ calls[k + 1].sample /\ calls[k + 2].sample

Triples == { k \in 1 .. Len(calls) : Triple(k, calls[k].power_w) }

\* C3 as stated: with the total at 0 after the first sample, the total is
\* P * 0.5 Wh after the second sample and still P * 0.5 Wh after the third.
\* (P * 0.5 Wh is P * HalfHour in the model's watt-seconds.)
C3_ThirdSampleSkipped ==
    \A k \in Triples :
        calls[k].energy = 0 =>
            /\ calls[k + 1].energy = calls[k].power_w * HalfHour
            /\ calls[k + 2].energy = calls[k].power_w * HalfHour

\* C3 as amended: the total grows by P * 0.5 Wh with the second sample and by
\* P * 1 Wh more with the third, whose gap of exactly one hour is integrated.
C3_ThirdSampleIntegrated ==
    \A k \in Triples :
        /\ calls[k + 1].energy = calls[k].energy + calls[k].power_w * HalfHour
        /\ calls[k + 2].energy = calls[k].energy + calls[k].power_w * 3 * HalfHour

\* three such samples with a power other than 0 have been integrated, the
\* first of them with the total at 0
C3_Witness ==
    \E k \in Triples : calls[k].power_w # 0 /\ calls[k].energy = 0

\* the step with which worker w takes its timestamp and integrates
Integrates(w) == pc[w] = "integrate" /\ pc'[w] # "integrate"

\* C4: when the sample's day differs from the day marker, the integration
\* sets the total to 0, the day marker to the sample's day and the last
\* timestamp to the sample's own, and returns 0, whatever the power and
\* the total before.
C4_DayRolloverResets ==
    [][\A w \in Workers :
          (Integrates(w) /\ Date(now) # day_marker) =>
              /\ energy_wh_day' = 0
              /\ day_marker' = Date(now)
              /\ last_sample_ts' = << now >>
              /\ calls'[Len(calls')].energy = 0
              /\ sample'[w] # << >> => sample'[w][1].energy_wh_day = 0]_vars

\* a sample with power has just rolled the day over, within the hour after a
\* sample that left a total other than 0
C4_Witness ==
    \E k \in 1 .. Len(calls) - 1 :
        /\ k + 1 = Len(calls)
        /\ calls[k].energy # 0
        /\ Date(calls[k + 1].ts) # Date(calls[k].ts)
        /\ calls[k + 1].ts - calls[k].ts = HalfHour
        /\ calls[k + 1].power_w # 0
        /\ energy_wh_day = 0

\* a malformed frame is being processed by worker w: it is being read, or
\* it is the frame the cycle goes on with
Malformed(w) == raw[w] # << >> /\ raw[w][1] \in MalformedFrames

\* C5: processing a malformed frame (bytes that do not decode, text that is
\* no JSON, JSON that is no object, an object with a missing or wrong type
\* tag, a sample object that lacks one of the four fields) leaves latest,
\* history and lastError as they were.
C5_MalformedFrameChangesNothing ==
    [][\A w \in Workers :
          (Malformed(w) \/ (pc[w] = "read" /\ raw'[w] # << >> /\ raw'[w][1] \in MalformedFrames)
                        \/ (pc[w] = "read" /\ pc'[w] = "loop"))
              => UNCHANGED collector]_vars

\* the step with which worker w ends a commit
Commits(w) == pc[w] = "clear_error" /\ pc'[w] = "append_csv"

\* C6: a transport fault sets lastError to a message and leaves latest and
\* history alone; lastError is a message until a Sample is committed, and
\* every commit sets it to absent.
C6_TransportFaultRecorded ==
    [][/\ \A w \in Workers :
             (pc[w] = "serial_exc" /\ pc'[w] # "serial_exc") =>
                 /\ last_error' # NoError
                 /\ UNCHANGED << latest, history >>
       /\ (last_error # NoError /\ last_error' = NoError) =>
             \E w \in Workers :
                 /\ Commits(w)
                 /\ latest = sample[w]
                 /\ committed[Len(committed)] = sample[w][1]
       /\ \A w \in Workers : Commits(w) => last_error' = NoError]_vars

\* the worker is about to end its second commit while lastError holds the
\* message of a transport fault
C6_Witness ==
    \E w \in Workers :
        /\ pc[w] = "clear_error"
        /\ last_error = SerialError
        /\ Len(committed) >= 2

\* no worker is inside a cycle
AtCycleBoundary == \A w \in Workers : pc[w] \in {"idle", "loop", "exited"}

\* C7: at every cycle boundary, and across restarts on the same store, the
\* log is one header row followed by one data row per committed Sample, in
\* the order of the commits.
C7_LogMatchesCommits ==
    AtCycleBoundary =>
        csv = << Header >> \o [k \in 1 .. Len(committed) |-> CsvRow(committed[k])]

C9_NoTransportAfterStop == stopped => serial # "open"

\* worker w is in one of the two exception handlers
InHandler(w) ==
    pc[w] \in {"serial_exc", "serial_sleep", "serial_close", "other_exc", "other_sleep"}

\* C10: no failure ends the loop: from either exception handler the worker
\* comes back to the head of the loop, the loop is left only there and only
\* with the running flag cleared, and with the flag set the next cycle
\* goes on to ensure the connection.
C10_LoopSurvivesFailures ==
    /\ \A w \in Workers : InHandler(w) ~> (pc[w] = "loop")
    /\ \A w \in Workers : (pc[w] = "loop" /\ running) ~> (pc[w] = "connect" \/ ~ running)
    /\ [][\A w \in Workers :
             (pc[w] # "exited" /\ pc'[w] = "exited") => (pc[w] = "loop" /\ ~ running)]_vars

\* after a failure was recorded, and with no stop requested, the worker is
\* in another cycle, about to read
C10_Witness ==
    \E w \in Workers : pc[w] = "read" /\ last_error # NoError /\ running

\* C11: every step of a worker that writes latest, history or lastError is
\* taken while that worker holds the lock that snapshot() takes, so none of
\* the three fields changes while the snapshot caller holds the lock.
C11_WritesUnderLock ==
    [][/\ \A w \in Workers :
             (pc[w] # "idle" /\ pc'[w] # pc[w] /\ collector' # collector)
                 => lock = WorkerThread(w)
       /\ lock = SnapCaller => UNCHANGED collector]_vars

\* thread w is running the acquisition loop
Active(w) == pc[w] \notin {"idle", "exited"}

\* C12: whatever start() and stop() calls are made, at most one thread is
\* running the acquisition loop at any time.
C12_OneLoopActive ==
    \A v, w \in Threads : (Active(v) /\ Active(w)) => v = w

Appends(w) == pc[w] = "append_history" /\ pc'[w] = "clear_error"

\* C14: the Sample a worker commits carries the frame's raw voltage times
\* the voltage gain plus the voltage offset, the raw current times the
\* current gain plus the current offset, and as power the product of these
\* two, whatever power the frame carried.
C14_CalibratedSample ==
    [][\A w \in Workers :
          Appends(w) =>
              LET f == raw[w][1]
                  s == committed'[Len(committed')]
                  v == f.voltage_v * config.voltage_gain + config.voltage_offset
                  i == f.current_a * config.current_gain + config.current_offset
              IN  /\ s = latest[1]
                  /\ s = history'[Len(history')]
                  /\ s.voltage_v = v
                  /\ s.current_a = i
                  /\ s.power_w = v * i]_vars

\* a Sample has been committed whose readings differ from the frame's raw
\* ones and whose power is neither the frame's nor the product of the raw
\* readings
C14_Witness ==
    \E w \in Workers :
        /\ pc[w] = "clear_error"
        /\ committed[Len(committed)] = sample[w][1]
        /\ sample[w][1].voltage_v # raw[w][1].voltage_v
        /\ sample[w][1].current_a # raw[w][1].current_a
        /\ sample[w][1].power_w # raw[w][1].power_w
        /\ sample[w][1].power_w # raw[w][1].voltage_v * raw[w][1].current_a

\* C15: for a sample of the day of the day marker, with a last timestamp
\* stored, the integration adds power * elapsed time to the total when the
\* elapsed time is at least 0 and at most one hour, and leaves the total
\* as it was when the elapsed time is negative or more than one hour; the
\* total is what it returns; and in every case, with or without a last
\* timestamp, the sample's timestamp becomes the last timestamp.
C15_ClosedWindow ==
    [][\A w \in Workers :
          Integrates(w) =>
              /\ last_sample_ts' = << now >>
              /\ calls'[Len(calls')].energy = energy_wh_day'
              /\ (Date(now) = day_marker /\ last_sample_ts # << >>) =>
                    LET dt == now - last_sample_ts[1]
                        p  == payload[w][1].power_w
                    IN  /\ (0 <= dt /\ dt <= SecondsPerHour)
                              => energy_wh_day' = energy_wh_day + p * dt
                        /\ (dt < 0 \/ dt > SecondsPerHour)
                              => energy_wh_day' = energy_wh_day
              /\ (Date(now) = day_marker /\ last_sample_ts = << >>)
                    => energy_wh_day' = energy_wh_day]_vars

\* a power other than 0 over exactly one hour has been added to a total that
\* an earlier sample, stamped before the one it followed, had left alone
C15_Witness ==
    \E k \in 2 .. Len(calls) - 1 :
        /\ k + 1 = Len(calls)
        /\ Date(calls[k - 1].ts) = Date(calls[k + 1].ts)
        /\ calls[k].ts < calls[k - 1].ts
        /\ calls[k].power_w # 0
        /\ calls[k].energy = calls[k - 1].energy
        /\ calls[k + 1].ts - calls[k].ts = SecondsPerHour
        /\ calls[k + 1].energy = calls[k].energy + calls[k + 1].power_w * SecondsPerHour
        /\ calls[k + 1].power_w # 0

\* the step with which worker w drops the frame of its cycle without
\* building a Sample: from the read, or from the building of the Sample,
\* straight back to the head of the loop
Discards(w) == pc[w] \in {"read", "integrate"} /\ pc'[w] = "loop"

\* C16: a frame that is dropped without producing a Sample (an empty read,
\* a frame that does not decode or parse, a wrong or missing type tag, a
\* sample frame that lacks a field) leaves latest, history, lastError and
\* the carried total, last timestamp and day marker as they were.
C16_DiscardedFrameChangesNothing ==
    [][\A w \in Workers : Discards(w) => UNCHANGED << collector, carry >>]_vars

\* worker w is in the backoff sleep of the transport-fault handler
InSerialBackoff(w) == pc[w] = "serial_sleep"

\* C17 as stated: the handler closes the transport before it sleeps, so no
\* transport is open while a worker is in its transport-fault backoff.
C17_ClosedDuringBackoff ==
    \A w \in Workers : InSerialBackoff(w) => serial # "open"

\* C17 as amended: the handler records the message, then sleeps, leaving
\* the transport as it is, then closes the transport if it is open and goes
\* back to the head of the loop with no transport open; a transport is
\* opened only by a worker ensuring its connection, and a read on a
\* transport that is not open yields no frame, so the cycle after the
\* backoff opens a new connection before it reads.
C17_RecordSleepClose ==
    [][/\ \A w \in Workers :
             /\ (pc[w] = "serial_exc" /\ pc'[w] # "serial_exc") =>
                   /\ last_error' = SerialError
                   /\ pc'[w] = "serial_sleep"
                   /\ UNCHANGED serial
             /\ (pc[w] = "serial_sleep" /\ pc'[w] # "serial_sleep") =>
                   /\ pc'[w] = "serial_close"
                   /\ UNCHANGED serial
             /\ (pc[w] = "serial_close" /\ pc'[w] # "serial_close") =>
                   /\ pc'[w] = "loop"
                   /\ serial' # "open"
             /\ (pc[w] = "read" /\ pc'[w] # "read" /\ serial # "open") =>
                   /\ pc'[w] \in {"serial_exc", "other_exc"}
                   /\ UNCHANGED << raw, nsamples >>
       /\ (serial # "open" /\ serial' = "open") =>
             \E w \in Workers : pc[w] = "connect" /\ pc'[w] = "read"]_vars

\* a worker has slept its backoff with the transport open and is about to
\* close it
C17_Witness ==
    \E w \in Workers :
        pc[w] = "serial_close" /\ serial = "open" /\ last_error = SerialError

\* the labels at which a worker is inside the with block of lines 151-154
InCommit == {"set_latest", "append_history", "clear_error"}

C19_StopEndsLoop ==
    /\ [][\A w \in Workers :
             (pc[w] = "loop" /\ pc'[w] # "loop")
                 => pc'[w] = IF running THEN "connect" ELSE "exited"]_vars
    /\ \A w \in Workers : (Active(w) /\ ~ running) ~> (pc[w] = "exited")

\* the worker has exited after stop(), having committed a Sample and
\* recorded a fault
C19_Witness ==
    \E w \in Workers :
        /\ pc[w] = "exited"
        /\ ~ running
        /\ stopped
        /\ Len(committed) >= 1
        /\ last_error # NoError

\* the data rows of the log
Rows == { csv[k] : k \in 2 .. Len(csv) }

\* the last Sample committed is visible as latest and has no row in the log
Unlogged ==
    /\ latest # << >>
    /\ committed # << >>
    /\ latest[1] = committed[Len(committed)]
    /\ CsvRow(latest[1]) \notin Rows

====
